---- MODULE Spec2Model ----
(***************************************************************************)
(* The mesh informer (pkg/object/meshcontroller/informer/informer.go):     *)
(* the registry of watchers guarded by one mutex, the single-key runner    *)
(* (watch), the prefix runner (watchPrefix) and the store they watch.      *)
(*                                                                         *)
(* Every method of meshInformer takes inf.mutex for its whole body, so a   *)
(* method is one atomic action.  A runner goroutine is a small program     *)
(* counter: it blocks on its channel, calls the callback without the mutex *)
(* and calls stopWatchOneKey as a separate step.                           *)
(*                                                                         *)
(* The store (storage.Storage, storage.Watcher) is a collaborator whose    *)
(* code is not part of informer.go.  It is modelled from its contract: a   *)
(* revision-numbered log of committed transactions; a watch started at     *)
(* revision r yields every later matching transaction in commit order; a   *)
(* closed watcher's channel still yields what had been put into it before  *)
(* the close (a Go channel keeps its buffered elements) and then ends.     *)
(***************************************************************************)
EXTENDS Integers, Sequences, FiniteSets, TLC

VARIABLES
    closed,     \* meshInformer.closed
    watchers,   \* meshInformer.watchers: watcher key -> watcher (an index of handles)
    handles,    \* every storage.Watcher ever obtained, in order of creation
    runners,    \* the goroutine started for each watcher (same index as handles)
    log,        \* the store: log[r] is the transaction committed at revision r
    ret,        \* the error returned by the last On.../onSpec... call
    mutex       \* meshInformer.mutex: <<>> when free, else <<g>>, g the runner holding it

vars == <<closed, watchers, handles, runners, log, ret, mutex>>

---------------------------------------------------------------------------
(* Bounds of the model *)

MaxLog == 2         \* transactions committed to the store (Spec, SpecKeys)
MaxLogPart == 3     \* transactions committed to the store (SpecPart, SpecPrefix)
MaxHandles == 2     \* successful registrations (watchers obtained)

---------------------------------------------------------------------------
(* Constants of informer.go *)

EventUpdate == "Update"
EventDelete == "Delete"
AllParts == ""
ServiceObservability == "observability"
ServiceCanary == "canary"

ErrAlreadyWatched == "already watched"
ErrClosed == "informer already been closed"
ErrNotFound == "not found"
NoErr == "nil"
ErrStore == "store error"     \* any err the store returned, passed on as it is

\* int64(^uint64(0) >> 1): the initial minRev of onSpecs, above every
\* revision the store assigns (the model's integers are 32 bits wide).
MaxInt64 == 2147483647

Min(a, b) == IF a < b THEN a ELSE b

---------------------------------------------------------------------------
(* Documents.  A raw value is a YAML text; what the informer does with it  *)
(* is compare it bytewise, convert it to JSON and read one path of it.  A  *)
(* text is modelled by what these operations see: whether it parses, and   *)
(* the values at the two paths the model watches.                          *)

Doc(o, c) == [wf |-> TRUE, observability |-> o, canary |-> c]
BadDoc == [wf |-> FALSE, observability |-> "?", canary |-> "?"]

\* yamljsontool.YAMLToJSON: an error for a text that is not YAML.
YAMLToJSON(text) ==
    IF text.wf
    THEN [err |-> FALSE, json |-> [observability |-> text.observability,
                                   canary |-> text.canary]]
    ELSE [err |-> TRUE, json |-> [observability |-> "", canary |-> ""]]

\* gjson.Get(json, path)
gjsonGet(json, path) ==
    IF path = ServiceObservability THEN json.observability
    ELSE IF path = ServiceCanary THEN json.canary
    ELSE "null"

\* meshInformer.comparePart: TRUE means "equal", the event is suppressed.
comparePart(path, old, new) ==
    IF path = AllParts THEN old = new
    ELSE IF YAMLToJSON(old).err THEN TRUE
    ELSE IF YAMLToJSON(new).err THEN TRUE
    ELSE gjsonGet(YAMLToJSON(old).json, path) = gjsonGet(YAMLToJSON(new).json, path)

---------------------------------------------------------------------------
(* The store.  A key is a tuple of path segments; a transaction maps the   *)
(* keys it touches to an event: a put of a value, or NilEvent for a        *)
(* deletion (the nil *clientv3.Event of the raw watch channels).           *)

NilEvent == [isNil |-> TRUE]
PutEvent(v) == [isNil |-> FALSE, Value |-> v]

\* layout.ServiceSpecKey, layout.ServiceInstanceSpecKey, ... (package layout)
ServiceSpecKey(serviceName) == <<"service-spec", serviceName>>
ServiceInstanceSpecPrefix(serviceName) == <<"service-instances-spec", serviceName>>
ServiceInstanceSpecKey(serviceName, instanceID) ==
    <<"service-instances-spec", serviceName, instanceID>>
ServiceInstanceStatusKey(serviceName, instanceID) ==
    <<"service-instances-status", serviceName, instanceID>>
TenantSpecKey(tenant) == <<"tenant-spec", tenant>>
IngressSpecKey(ingress) == <<"ingress", ingress>>

HasPrefix(key, prefix) ==
    /\ Len(key) >= Len(prefix)
    /\ SubSeq(key, 1, Len(prefix)) = prefix

\* The revision of the last transaction that touched key (0: none).
RECURSIVE LastRevUpTo(_, _)
LastRevUpTo(key, r) ==
    IF r = 0 THEN 0
    ELSE IF key \in DOMAIN log[r] THEN r
    ELSE LastRevUpTo(key, r - 1)

ModRevision(key) == LastRevUpTo(key, Len(log))

\* The revision of the last transaction up to r that put key (0: none).
RECURSIVE LastPutUpTo(_, _)
LastPutUpTo(key, r) ==
    IF r = 0 THEN 0
    ELSE IF key \in DOMAIN log[r] /\ ~log[r][key].isNil THEN r
    ELSE LastPutUpTo(key, r - 1)

\* The keys that exist at revision r.
ExistsAt(key, r) ==
    LET m == LastRevUpTo(key, r) IN m > 0 /\ ~log[m][key].isNil

Exists(key) == ExistsAt(key, Len(log))

TouchedKeys == UNION {DOMAIN log[r] : r \in 1..Len(log)}

\* store.GetRaw(key): the record, or nil when the key does not exist.
GetRaw(key) ==
    IF Exists(key)
    THEN [isNil |-> FALSE, Value |-> log[ModRevision(key)][key].Value,
          ModRevision |-> ModRevision(key)]
    ELSE [isNil |-> TRUE]

\* store.GetRawPrefix(prefix): the records under the prefix.
GetRawPrefix(prefix) ==
    LET ks == {k \in TouchedKeys : HasPrefix(k, prefix) /\ Exists(k)}
    IN [k \in ks |-> GetRaw(k)]

\* The values under the prefix at revision r.
PrefixValuesAt(prefix, r) ==
    LET ks == {k \in TouchedKeys : HasPrefix(k, prefix) /\ ExistsAt(k, r)}
    IN [k \in ks |-> log[LastRevUpTo(k, r)][k].Value]

---------------------------------------------------------------------------
(* Watchers and their channels.                                            *)
(*                                                                         *)
(* handles[id] is the storage.Watcher obtained by the id-th successful     *)
(* registration together with the one watch started on it:                 *)
(*   wk, kind, target, path   what onSpecPart/onSpecs passed on            *)
(*   rev                      the revision the watch was started from      *)
(*   closed, cut              Close() was called; the channel then holds   *)
(*                            the events up to revision cut, no more       *)
(*   reclosed                 Close() was called on it when it was closed  *)
(*   op, ids, regRev          the public method that made it, the resource *)
(*                            it named, the store revision at that moment  *)
(* runners[id] is the goroutine started for it (watch or watchPrefix):     *)
(*   pc        "recv1"  blocked on the first receive                       *)
(*             "range"  blocked in for ... range ch                        *)
(*             "stop"   the callback returned false, stopWatchOneKey next  *)
(*             "locked" in stopWatchOneKey, holding inf.mutex (SpecMutex)  *)
(*             "exit"   returned;  "panic"  dereferenced a nil event       *)
(*   pos       the first revision it has not yet received                  *)
(*   oldValue, kvs   the locals of watch and watchPrefix                   *)
(*   n, arg    calls of the callback so far, and the last call's arguments *)
(*   stopped   the callback has returned false                             *)
(*   lastNil   the last event received was a deletion marker               *)

NoDoc == [wf |-> FALSE, observability |-> "", canary |-> ""]
EmptyText == [wf |-> TRUE, observability |-> "null", canary |-> "null"]
EmptyMap == [k \in {} |-> NoDoc]
NoArg == [none |-> TRUE]

Ids == DOMAIN handles

Crashed == \E id \in Ids : runners[id].pc = "panic"

\* Whether the transaction at revision r goes to the watch of h.
Matches(h, r) ==
    IF h.kind = "key" THEN h.target \in DOMAIN log[r]
    ELSE \E k \in DOMAIN log[r] : HasPrefix(k, h.target)

\* What the channel of h carries for revision r: the event of the key, or
\* the batch (key -> event) of the transaction's keys under the prefix.
EventAt(h, r) ==
    IF h.kind = "key" THEN log[r][h.target]
    ELSE [k \in {x \in DOMAIN log[r] : HasPrefix(x, h.target)} |-> log[r][k]]

\* The last revision whose event the channel of watcher id holds or will hold.
Limit(id) == IF handles[id].closed THEN handles[id].cut ELSE Len(log)

Pending(id) ==
    {r \in runners[id].pos .. Limit(id) : Matches(handles[id], r)}

HasEvent(id) == Pending(id) # {}

NextRev(id) == CHOOSE r \in Pending(id) : \A s \in Pending(id) : r <= s

\* The channel is closed and drained: a receive yields the zero value and
\* a range loop ends.
ChannelEnded(id) == handles[id].closed /\ ~HasEvent(id)

\* What the channel may hold when the watcher is closed: the events the
\* store had already handed over, at least those received so far.
CutChoices(id) ==
    {Min(runners[id].pos - 1, Len(log))} \cup
    {r \in runners[id].pos .. Len(log) : Matches(handles[id], r)}

\* storage.Watcher.Close(): idempotent, ends the channel.
WatcherClose(h, cut) ==
    IF h.closed
    THEN [h EXCEPT !.reclosed = TRUE]
    ELSE [h EXCEPT !.closed = TRUE, !.cut = cut]

NewHandle(op, ids, wk, kind, target, path, rev) ==
    [wk |-> wk, kind |-> kind, target |-> target, path |-> path, rev |-> rev,
     closed |-> FALSE, cut |-> 0, reclosed |-> FALSE,
     op |-> op, ids |-> ids, regRev |-> Len(log)]

NewRunner(rev) ==
    [pc |-> "recv1", pos |-> rev, oldValue |-> NoDoc, kvs |-> EmptyMap,
     n |-> 0, arg |-> NoArg, stopped |-> FALSE, lastNil |-> FALSE]

---------------------------------------------------------------------------
(* Watcher keys *)

serviceSpecWatcherKey(serviceName, gjsonPath) ==
    "service-spec-" \o serviceName \o "-" \o gjsonPath

instanceSpecWatcherKey(serviceName, instanceID, gjsonPath) ==
    "service-instance-spec-" \o serviceName \o "-" \o instanceID \o "-" \o gjsonPath

instanceStatusWatcherKey(serviceName, instanceID, gjsonPath) ==
    "service-instance-status-" \o serviceName \o "-" \o instanceID \o "-" \o gjsonPath

tenantSpecWatcherKey(tenant, gjsonPath) == "tenant-" \o tenant

ingressSpecWatcherKey(ingress, gjsonPath) == "ingress-" \o ingress

serviceInstanceSpecWatcherKey(serviceName) ==
    "prefix-service-instance-spec-" \o serviceName

---------------------------------------------------------------------------
(* The registry: stopWatchOneKey, onSpecPart, onSpecs, Close *)

\* inf.mutex.Lock() returns at once: nobody holds the mutex.  The methods
\* below lock at their start and unlock on return (defer); between the two
\* they call the store and change the table, and wait for nothing else, so
\* each is one step that begins and ends with the mutex free.
Lockable == mutex = <<>>

watchersWithout_keep(key) == watchers

\* delete(inf.watchers, key)
watchersWithout(key) == [k \in DOMAIN watchers \ {key} |-> watchers[k]]

StopCuts(key) ==
    IF key \in DOMAIN watchers THEN CutChoices(watchers[key]) ELSE {0}

\* meshInformer.stopWatchOneKey; cut is what the closed channel still holds.
stopWatchOneKey(key, cut) ==
    IF key \in DOMAIN watchers
    THEN /\ handles' = [handles EXCEPT ![watchers[key]] = WatcherClose(@, cut)]
         /\ watchers' = watchersWithout(key)
    ELSE UNCHANGED <<handles, watchers>>

\* What the store answers to one registration: everything ("ok"), or an
\* error from GetRaw/GetRawPrefix, from Watcher() or from WatchRaw...FromRev.
\* (After an error of WatchRaw...FromRev the watcher obtained is dropped
\* unclosed; no watch runs on it and the model keeps no trace of it.)
StoreOutcomes == {"ok", "errGetRaw", "errWatcher", "errWatch"}

onSpecPartErr_noClosedCheck(storeKey, watcherKey, out) ==
    IF watcherKey \in DOMAIN watchers THEN ErrAlreadyWatched
    ELSE IF out = "errGetRaw" THEN ErrStore
    ELSE IF GetRaw(storeKey).isNil THEN ErrNotFound
    ELSE IF out \in {"errWatcher", "errWatch"} THEN ErrStore
    ELSE NoErr

onSpecPartErr_lateNotFound(storeKey, watcherKey, out) ==
    IF closed THEN ErrClosed
    ELSE IF watcherKey \in DOMAIN watchers THEN ErrAlreadyWatched
    ELSE IF out = "errGetRaw" THEN ErrStore
    ELSE IF out \in {"errWatcher", "errWatch"} THEN ErrStore
    ELSE IF GetRaw(storeKey).isNil THEN ErrNotFound
    ELSE NoErr

\* The error onSpecPart returns, in the order of its checks.
onSpecPartErr(storeKey, watcherKey, out) ==
    IF closed THEN ErrClosed
    ELSE IF watcherKey \in DOMAIN watchers THEN ErrAlreadyWatched
    ELSE IF out = "errGetRaw" THEN ErrStore
    ELSE IF GetRaw(storeKey).isNil THEN ErrNotFound
    ELSE IF out \in {"errWatcher", "errWatch"} THEN ErrStore
    ELSE NoErr

\* The error onSpecs returns.
onSpecsErr(storePrefix, watcherKey, out) ==
    IF closed THEN ErrClosed
    ELSE IF watcherKey \in DOMAIN watchers THEN ErrAlreadyWatched
    ELSE IF out \in {"errGetRaw", "errWatcher", "errWatch"} THEN ErrStore
    ELSE NoErr

\* minRev of onSpecs: the least ModRevision of the records read, MaxInt64
\* when there is none.
minRev(kvs) ==
    LET revs == {kvs[k].ModRevision : k \in DOMAIN kvs} \cup {MaxInt64}
    IN CHOOSE m \in revs : \A x \in revs : m <= x

\* inf.watchers[watcherKey] = watcher; go inf.watch(...) / inf.watchPrefix(...)
Register(op, ids, watcherKey, kind, target, path, rev) ==
    /\ Len(handles) < MaxHandles
    /\ handles' = Append(handles, NewHandle(op, ids, watcherKey, kind, target, path, rev))
    /\ runners' = Append(runners, NewRunner(rev))
    /\ watchers' = [k \in DOMAIN watchers \cup {watcherKey} |->
                      IF k = watcherKey THEN Len(handles) + 1 ELSE watchers[k]]

\* meshInformer.onSpecPart
onSpecPart(op, ids, storeKey, watcherKey, gjsonPath, out) ==
    LET err == onSpecPartErr(storeKey, watcherKey, out) IN
    /\ ~Crashed
    /\ Lockable
    /\ ret' = err
    /\ IF err = NoErr
       THEN Register(op, ids, watcherKey, "key", storeKey, gjsonPath,
                     GetRaw(storeKey).ModRevision)
       ELSE UNCHANGED <<handles, runners, watchers>>
    /\ UNCHANGED <<closed, log, mutex>>

\* meshInformer.onSpecs
onSpecs(op, ids, storePrefix, watcherKey, out) ==
    LET err == onSpecsErr(storePrefix, watcherKey, out) IN
    /\ ~Crashed
    /\ Lockable
    /\ ret' = err
    /\ IF err = NoErr
       THEN Register(op, ids, watcherKey, "prefix", storePrefix, AllParts,
                     minRev(GetRawPrefix(storePrefix)))
       ELSE UNCHANGED <<handles, runners, watchers>>
    /\ UNCHANGED <<closed, log, mutex>>

Registered == {watchers[k] : k \in DOMAIN watchers}

\* inf.closed = true
closedAfterClose == TRUE

\* meshInformer.Close
Close ==
    /\ ~Crashed
    /\ Lockable
    /\ \E cuts \in [Registered -> 0..Len(log)] :
         /\ \A id \in Registered : cuts[id] \in CutChoices(id)
         /\ handles' = [id \in Ids |->
                          IF id \in Registered
                          THEN WatcherClose(handles[id], cuts[id])
                          ELSE handles[id]]
    /\ closed' = closedAfterClose
    /\ UNCHANGED <<watchers, runners, log, ret, mutex>>

---------------------------------------------------------------------------
(* The single-key runner: meshInformer.watch.  r is what the callback      *)
(* returns if this step calls it.                                          *)

\* fn(Event{EventType: typ, ...}, value) returned r
Called(run, typ, value, r) ==
    [run EXCEPT !.n = @ + 1,
                !.arg = [EventType |-> typ, value |-> value],
                !.stopped = @ \/ ~r,
                !.pc = IF r THEN "range" ELSE "stop"]

watchFirst_diffed(id, r) ==
    /\ ~Crashed
    /\ handles[id].kind = "key"
    /\ runners[id].pc = "recv1"
    /\ HasEvent(id) \/ ChannelEnded(id)
    /\ LET event == IF HasEvent(id) THEN EventAt(handles[id], NextRev(id))
                    ELSE NilEvent
           run == runners[id]
       IN runners' = [runners EXCEPT ![id] =
            IF event.isNil
            THEN [run EXCEPT !.pc = "panic"]
            ELSE IF ~comparePart(handles[id].path, run.oldValue, event.Value)
                 THEN Called([run EXCEPT !.oldValue = event.Value,
                                         !.pos = NextRev(id) + 1],
                             EventUpdate, event.Value, r)
                 ELSE [run EXCEPT !.oldValue = event.Value,
                                  !.pos = NextRev(id) + 1, !.pc = "range"]]
    /\ UNCHANGED <<closed, watchers, handles, log, ret, mutex>>

\* event := <-ch; oldValue := string(event.Kv.Value); if !fn(...) {stop}
watchFirst(id, r) ==
    /\ ~Crashed
    /\ handles[id].kind = "key"
    /\ runners[id].pc = "recv1"
    /\ HasEvent(id) \/ ChannelEnded(id)
    /\ LET event == IF HasEvent(id) THEN EventAt(handles[id], NextRev(id))
                    ELSE NilEvent
           run == runners[id]
       IN runners' = [runners EXCEPT ![id] =
            IF event.isNil
            THEN [run EXCEPT !.pc = "panic"]
            ELSE Called([run EXCEPT !.oldValue = event.Value,
                                    !.pos = NextRev(id) + 1],
                        EventUpdate, event.Value, r)]
    /\ UNCHANGED <<closed, watchers, handles, log, ret, mutex>>

oldValueAfter_keep(old, new) == old

\* oldValue = newValue
oldValueAfter(old, new) == new

\* One iteration of for event = range ch, up to if !continueWatch.
watchNext(id, r) ==
    /\ ~Crashed
    /\ handles[id].kind = "key"
    /\ runners[id].pc = "range"
    /\ HasEvent(id)
    /\ LET event == EventAt(handles[id], NextRev(id))
           run == [runners[id] EXCEPT !.pos = NextRev(id) + 1,
                                      !.lastNil = event.isNil]
       IN runners' = [runners EXCEPT ![id] =
            IF event.isNil
            THEN Called(run, EventDelete, EmptyText, r)
            ELSE IF ~comparePart(handles[id].path, run.oldValue, event.Value)
                 THEN Called([run EXCEPT !.oldValue = oldValueAfter(@, event.Value)],
                             EventUpdate, event.Value, r)
                 ELSE [run EXCEPT !.oldValue = oldValueAfter(@, event.Value)]]
    /\ UNCHANGED <<closed, watchers, handles, log, ret, mutex>>

---------------------------------------------------------------------------
(* The prefix runner: meshInformer.watchPrefix *)

\* fn(kvs) returned r
CalledPrefix(run, r) ==
    [run EXCEPT !.n = @ + 1,
                !.arg = [kvs |-> run.kvs],
                !.stopped = @ \/ ~r,
                !.pc = IF r THEN "range" ELSE "stop"]

\* kvs after the loop over the first batch: its entries that are not nil.
PrimedKVs(changedKVs) ==
    [k \in {x \in DOMAIN changedKVs : ~changedKVs[x].isNil} |-> changedKVs[k].Value]

\* changedKVs := <-ch; seed kvs; if !fn(kvs) {stop}.  A closed channel
\* yields the nil map, over which the loop does nothing.
watchPrefixFirst(id, r) ==
    /\ ~Crashed
    /\ handles[id].kind = "prefix"
    /\ runners[id].pc = "recv1"
    /\ HasEvent(id) \/ ChannelEnded(id)
    /\ LET changedKVs == IF HasEvent(id) THEN EventAt(handles[id], NextRev(id))
                         ELSE [k \in {} |-> NilEvent]
           pos == IF HasEvent(id) THEN NextRev(id) + 1 ELSE runners[id].pos
       IN runners' = [runners EXCEPT ![id] =
            CalledPrefix([@ EXCEPT !.kvs = PrimedKVs(changedKVs), !.pos = pos], r)]
    /\ UNCHANGED <<closed, watchers, handles, log, ret, mutex>>

\* The changed flag of one later batch.
BatchChanged(kvs, changedKVs) ==
    \E k \in DOMAIN changedKVs :
        \/ changedKVs[k].isNil
        \/ k \notin DOMAIN kvs
        \/ kvs[k] # changedKVs[k].Value

\* kvs after one later batch.
BatchApplied(kvs, changedKVs) ==
    LET dels == {k \in DOMAIN changedKVs : changedKVs[k].isNil}
        puts == DOMAIN changedKVs \ dels
    IN [k \in (DOMAIN kvs \ dels) \cup puts |->
          IF k \in puts THEN changedKVs[k].Value ELSE kvs[k]]

\* One iteration of for changedKVs = range ch.
watchPrefixNext(id, r) ==
    /\ ~Crashed
    /\ handles[id].kind = "prefix"
    /\ runners[id].pc = "range"
    /\ HasEvent(id)
    /\ LET changedKVs == EventAt(handles[id], NextRev(id))
           run == [runners[id] EXCEPT !.pos = NextRev(id) + 1,
                                      !.kvs = BatchApplied(@, changedKVs)]
       IN runners' = [runners EXCEPT ![id] =
            IF BatchChanged(runners[id].kvs, changedKVs)
            THEN CalledPrefix(run, r)
            ELSE run]
    /\ UNCHANGED <<closed, watchers, handles, log, ret, mutex>>

---------------------------------------------------------------------------
(* Steps common to both runners *)

\* inf.stopWatchOneKey(watcherKey) after the callback returned false.
runnerStop(id) ==
    /\ ~Crashed
    /\ Lockable
    /\ runners[id].pc = "stop"
    /\ \E cut \in StopCuts(handles[id].wk) : stopWatchOneKey(handles[id].wk, cut)
    /\ runners' = [runners EXCEPT ![id].pc = "range"]
    /\ UNCHANGED <<closed, log, ret, mutex>>

\* The same in two steps.  inf.mutex.Lock() in stopWatchOneKey, called by
\* the runner after the callback returned false ...
runnerLock(id) ==
    /\ ~Crashed
    /\ runners[id].pc = "stop"
    /\ Lockable
    /\ mutex' = <<id>>
    /\ runners' = [runners EXCEPT ![id].pc = "locked"]
    /\ UNCHANGED <<closed, watchers, handles, log, ret>>

mutexAfterUnlock_held(g) == <<g>>

\* defer inf.mutex.Unlock()
mutexAfterUnlock(g) == <<>>

\* ... and the body of stopWatchOneKey with the deferred Unlock.
runnerStopLocked(id) ==
    /\ ~Crashed
    /\ runners[id].pc = "locked"
    /\ mutex = <<id>>
    /\ \E cut \in StopCuts(handles[id].wk) : stopWatchOneKey(handles[id].wk, cut)
    /\ runners' = [runners EXCEPT ![id].pc = "range"]
    /\ mutex' = mutexAfterUnlock(id)
    /\ UNCHANGED <<closed, log, ret>>

\* The range loop ends on the closed channel and the goroutine returns.
runnerExit(id) ==
    /\ ~Crashed
    /\ runners[id].pc = "range"
    /\ ChannelEnded(id)
    /\ runners' = [runners EXCEPT ![id].pc = "exit"]
    /\ UNCHANGED <<closed, watchers, handles, log, ret, mutex>>

---------------------------------------------------------------------------
(* The public methods.  Each wraps the caller's function in a closure that *)
(* decodes the text and calls it (a text that does not decode is logged    *)
(* and answered true without calling it).  The callback of the model is    *)
(* this closure; for the texts that decode, which are all texts but        *)
(* BadDoc, it is the caller's function as well.                            *)

OnPartOfServiceSpec(serviceName, gjsonPath, out) ==
    onSpecPart("OnPartOfServiceSpec", <<serviceName>>,
               ServiceSpecKey(serviceName),
               serviceSpecWatcherKey(serviceName, gjsonPath), gjsonPath, out)

OnPartOfInstanceSpec(serviceName, instanceID, gjsonPath, out) ==
    onSpecPart("OnPartOfInstanceSpec", <<serviceName, instanceID>>,
               ServiceInstanceSpecKey(serviceName, instanceID),
               instanceSpecWatcherKey(serviceName, instanceID, gjsonPath), gjsonPath, out)

OnPartOfServiceInstanceStatus(serviceName, instanceID, gjsonPath, out) ==
    onSpecPart("OnPartOfServiceInstanceStatus", <<serviceName, instanceID>>,
               ServiceInstanceStatusKey(serviceName, instanceID),
               instanceStatusWatcherKey(serviceName, instanceID, gjsonPath), gjsonPath, out)

OnPartOfTenantSpec(tenant, gjsonPath, out) ==
    onSpecPart("OnPartOfTenantSpec", <<tenant>>,
               TenantSpecKey(tenant),
               tenantSpecWatcherKey(tenant, gjsonPath), gjsonPath, out)

OnPartOfIngressSpec(ingress, gjsonPath, out) ==
    onSpecPart("OnPartOfIngressSpec", <<ingress>>,
               IngressSpecKey(ingress),
               ingressSpecWatcherKey(ingress, gjsonPath), gjsonPath, out)

OnServiceInstanceSpecs(serviceName, out) ==
    onSpecs("OnServiceInstanceSpecs", <<serviceName>>,
            ServiceInstanceSpecPrefix(serviceName),
            serviceInstanceSpecWatcherKey(serviceName), out)

StopWatchServiceSpec(serviceName, gjsonPath) ==
    /\ ~Crashed
    /\ Lockable
    /\ \E cut \in StopCuts(serviceSpecWatcherKey(serviceName, gjsonPath)) :
         stopWatchOneKey(serviceSpecWatcherKey(serviceName, gjsonPath), cut)
    /\ UNCHANGED <<closed, runners, log, ret, mutex>>

StopWatchServiceInstanceSpec(serviceName) ==
    /\ ~Crashed
    /\ Lockable
    /\ \E cut \in StopCuts(serviceInstanceSpecWatcherKey(serviceName)) :
         stopWatchOneKey(serviceInstanceSpecWatcherKey(serviceName), cut)
    /\ UNCHANGED <<closed, runners, log, ret, mutex>>

---------------------------------------------------------------------------
(* The store's clients commit transactions *)

\* The transactions over some of the keys ks that the store accepts now:
\* puts of values from vals, and deletions of keys that exist.
Txns(ks, vals) ==
    LET all == UNION {[d -> {NilEvent} \cup {PutEvent(v) : v \in vals}] :
                        d \in SUBSET ks \ {{}}}
    IN {txn \in all : \A k \in DOMAIN txn : txn[k].isNil => Exists(k)}

\* A client of the store commits one transaction.
Commit(txn) ==
    /\ ~Crashed
    /\ log' = Append(log, txn)
    /\ UNCHANGED <<closed, watchers, handles, runners, ret, mutex>>

Init ==
    /\ closed = FALSE
    /\ watchers = [k \in {} |-> 0]
    /\ handles = <<>>
    /\ runners = <<>>
    /\ log = <<>>
    /\ ret = NoErr
    /\ mutex = <<>>

---------------------------------------------------------------------------
(* Spec: the life cycle of the watchers of one service: its spec watched   *)
(* by path, its instance specs watched by prefix, cancelled by key, by the *)
(* callback or by Close, while the store changes.                          *)

Svc == "s"
Paths == {AllParts}
SvcKeys == {ServiceSpecKey(Svc), ServiceInstanceSpecKey(Svc, "i")}
SvcDocs == {Doc("1", "1")}

Next ==
    \/ \E p \in Paths, out \in StoreOutcomes : OnPartOfServiceSpec(Svc, p, out)
    \/ \E out \in StoreOutcomes : OnServiceInstanceSpecs(Svc, out)
    \/ \E p \in Paths : StopWatchServiceSpec(Svc, p)
    \/ StopWatchServiceInstanceSpec(Svc)
    \/ Close
    \/ Len(log) < MaxLog /\ \E k \in SvcKeys : \E txn \in Txns({k}, SvcDocs) : Commit(txn)
    \/ \E id \in Ids, r \in BOOLEAN : watchFirst(id, r)
    \/ \E id \in Ids, r \in BOOLEAN : watchNext(id, r)
    \/ \E id \in Ids, r \in BOOLEAN : watchPrefixFirst(id, r)
    \/ \E id \in Ids, r \in BOOLEAN : watchPrefixNext(id, r)
    \/ \E id \in Ids : runnerStop(id)
    \/ \E id \in Ids : runnerExit(id)

Spec == Init /\ [][Next]_vars

---------------------------------------------------------------------------
(* Properties of the registry, checked under Spec *)

SvcSpecKeys == {serviceSpecWatcherKey(Svc, p) : p \in Paths}
SvcWatcherKeys == SvcSpecKeys \cup {serviceInstanceSpecWatcherKey(Svc)}

\* This step is a call of onSpecPart or onSpecs with watcher key wk to which
\* the store answers out.
RegCall(wk, out) ==
    \/ \E p \in Paths :
         wk = serviceSpecWatcherKey(Svc, p) /\ OnPartOfServiceSpec(Svc, p, out)
    \/ wk = serviceInstanceSpecWatcherKey(Svc) /\ OnServiceInstanceSpecs(Svc, out)

\* This step is a cancel-by-key of watcher key wk.
StopCall(wk) ==
    \/ \E p \in Paths :
         wk = serviceSpecWatcherKey(Svc, p) /\ StopWatchServiceSpec(Svc, p)
    \/ wk = serviceInstanceSpecWatcherKey(Svc) /\ StopWatchServiceInstanceSpec(Svc)

\* The watchers under watcher key wk that have not been closed.
Live(wk) == {id \in Ids : handles[id].wk = wk /\ ~handles[id].closed}

\* C1: at most one live subscription per watch key, and a registration
\* whose watch key is in the watchers table returns ErrAlreadyWatched and
\* changes nothing.
C1_DuplicateIsAlreadyWatched ==
    [][/\ \A wk \in SvcWatcherKeys : Cardinality(Live(wk)) <= 1
       /\ \A wk \in SvcWatcherKeys, out \in StoreOutcomes :
            (RegCall(wk, out) /\ wk \in DOMAIN watchers)
                => /\ ret' = ErrAlreadyWatched
                   /\ UNCHANGED <<watchers, handles, runners>>]_vars

\* C2: a Close with N watchers registered closes all N and leaves the
\* watchers table empty.
C2_CloseEmptiesTable ==
    [][Close => /\ \A id \in Registered : handles'[id].closed
                /\ DOMAIN watchers' = {}]_vars

\* C3: whatever the order of cancel-by-key, callback-triggered stop and
\* Close, no watcher has Close() called on it twice and no runner faults.
C3_ClosedAtMostOnce ==
    \A id \in Ids : ~handles[id].reclosed /\ runners[id].pc # "panic"

\* C4: once closed, the informer stays closed: every later registration
\* returns ErrClosed, no entry is added and no watch is started.
C4_ClosedIsPermanent ==
    [][closed =>
         /\ closed'
         /\ DOMAIN watchers' \subseteq DOMAIN watchers
         /\ Len(handles') = Len(handles)
         /\ Len(runners') = Len(runners)
         /\ \A wk \in SvcWatcherKeys, out \in StoreOutcomes :
              RegCall(wk, out) => ret' = ErrClosed]_vars

\* C4 witness: a registration was refused with ErrClosed after watchers
\* had been registered.
C4_Witness == closed /\ ret = ErrClosed /\ Len(handles) > 0

\* C5: after the callback of a single-key watch returned false it is not
\* called again, and the runner's stop leaves no entry for a later
\* cancel-by-key to act on.
C5_NoCallAfterFalse ==
    [][\A id \in Ids :
         /\ (handles[id].kind = "key" /\ runners[id].stopped)
                => runners'[id].n = runners[id].n
         /\ (handles[id].kind = "key" /\ runnerStop(id))
                => handles[id].wk \notin DOMAIN watchers']_vars

\* C8: before a watcher key is cancelled a registration under it returns
\* ErrAlreadyWatched; cancel-by-key removes it; and a registration under a
\* key that is not in the table succeeds if the informer is not closed and
\* (single key) the store key exists.
C8_ReRegisterAfterCancel ==
    [][\A wk \in SvcWatcherKeys :
         /\ (~closed /\ wk \in DOMAIN watchers /\ \E out \in StoreOutcomes : RegCall(wk, out))
                => ret' = ErrAlreadyWatched /\ watchers' = watchers
         /\ StopCall(wk) => wk \notin DOMAIN watchers'
         /\ (/\ ~closed
             /\ wk \notin DOMAIN watchers
             /\ wk \in SvcSpecKeys => Exists(ServiceSpecKey(Svc))
             /\ RegCall(wk, "ok"))
                => ret' = NoErr /\ wk \in DOMAIN watchers' /\ ~handles'[watchers'[wk]].closed]_vars

\* C8 witness: a key whose first watcher was cancelled is registered again.
C8_Witness ==
    /\ ~closed
    /\ ret = NoErr
    /\ \E a \in Ids, b \in Ids :
         /\ a < b
         /\ handles[a].wk = handles[b].wk
         /\ handles[a].closed
         /\ handles[b].wk \in DOMAIN watchers
         /\ watchers[handles[b].wk] = b
         /\ ~handles[b].closed

\* C9: onSpecPart on a store key that has no record returns ErrNotFound
\* and changes nothing: no entry, no watcher, no runner.
C9_NotFoundNoEffect ==
    [][\A p \in Paths, out \in StoreOutcomes \ {"errGetRaw"} :
         (/\ ~closed
          /\ serviceSpecWatcherKey(Svc, p) \notin DOMAIN watchers
          /\ ~Exists(ServiceSpecKey(Svc))
          /\ OnPartOfServiceSpec(Svc, p, out))
            => /\ ret' = ErrNotFound
               /\ UNCHANGED <<closed, watchers, handles, runners, log>>]_vars

\* C9 witness: ErrNotFound was returned and the store key is still absent.
C9_Witness ==
    /\ ret = ErrNotFound
    /\ ~Exists(ServiceSpecKey(Svc))
    /\ \A id \in Ids : handles[id].kind = "prefix"

\* C15: a runner that drains its channel does not call Close() a second
\* time on its own watcher: its stopWatchOneKey finds the watcher closed
\* and removed, and leaves it alone.
C15_DrainingRunnerNoDoubleClose ==
    [][\A id \in Ids :
         runnerStop(id) => handles'[id].reclosed = handles[id].reclosed]_vars

\* C17: the stopWatchOneKey a runner calls after its callback returned
\* false closes no watcher but the runner's own and removes no entry of the
\* watchers table but its own.
C17_StopOnlyOwnSubscription ==
    [][\A id \in Ids :
         runnerStop(id) =>
            /\ \A o \in Ids \ {id} : handles'[o] = handles[o]
            /\ \A k \in DOMAIN watchers :
                 watchers[k] # id => k \in DOMAIN watchers']_vars

\* C18: a runner whose channel has ended before it received a first event
\* does not fault and does not call the callback.
C18_NoFaultBeforePriming ==
    [][\A id \in Ids :
         (runners[id].pc = "recv1" /\ ChannelEnded(id)) =>
            /\ runners'[id].pc # "panic"
            /\ runners'[id].n = 0]_vars

---------------------------------------------------------------------------
(* SpecMutex: Spec with the runner's stopWatchOneKey in two steps, so that *)
(* the mutex is held between them while the other goroutines go on: the    *)
(* methods wait for the mutex, the runners receive and call back.          *)

NextMutex ==
    \/ \E p \in Paths, out \in StoreOutcomes : OnPartOfServiceSpec(Svc, p, out)
    \/ \E out \in StoreOutcomes : OnServiceInstanceSpecs(Svc, out)
    \/ \E p \in Paths : StopWatchServiceSpec(Svc, p)
    \/ StopWatchServiceInstanceSpec(Svc)
    \/ Close
    \/ Len(log) < MaxLog /\ \E k \in SvcKeys : \E txn \in Txns({k}, SvcDocs) : Commit(txn)
    \/ \E id \in Ids, r \in BOOLEAN : watchFirst(id, r)
    \/ \E id \in Ids, r \in BOOLEAN : watchNext(id, r)
    \/ \E id \in Ids, r \in BOOLEAN : watchPrefixFirst(id, r)
    \/ \E id \in Ids, r \in BOOLEAN : watchPrefixNext(id, r)
    \/ \E id \in Ids : runnerLock(id)
    \/ \E id \in Ids : runnerStopLocked(id)
    \/ \E id \in Ids : runnerExit(id)

SpecMutex == Init /\ [][NextMutex]_vars

\* C16: the mutex is held only by a runner that is inside stopWatchOneKey,
\* which it leaves without waiting for anything: never by a runner that is
\* blocked on its channel or whose callback is being called.  So a method
\* called by anybody, a callback included, waits for no event delivery.
C16_MutexOnlyInStopWatchOneKey ==
    [][/\ mutex # <<>> => runners[mutex[1]].pc = "locked"
       /\ \A id \in Ids :
            runners'[id].n # runners[id].n => mutex # <<id>> /\ mutex' # <<id>>]_vars

\* C16 witness: a runner holds the mutex in stopWatchOneKey while another
\* runner has been called back and waits on its channel.
C16_Witness ==
    /\ mutex # <<>>
    /\ \E id \in Ids :
         /\ mutex # <<id>>
         /\ runners[id].n > 0
         /\ runners[id].pc = "range"
         /\ ~handles[id].closed

---------------------------------------------------------------------------
(* SpecPart: single-key watches of one service spec, by the whole text and *)
(* by one path of it, with callbacks that always return true, while the    *)
(* key is put, changed, deleted and put again.                             *)

PartPaths == {AllParts, ServiceObservability}
PartDocs == {Doc("1", "1"), Doc("1", "2"), Doc("2", "1")}

NextPart ==
    \/ \E p \in PartPaths, out \in StoreOutcomes : OnPartOfServiceSpec(Svc, p, out)
    \/ Len(log) < MaxLogPart
         /\ \E txn \in Txns({ServiceSpecKey(Svc)}, PartDocs) : Commit(txn)
    \/ \E id \in Ids : watchFirst(id, TRUE)
    \/ \E id \in Ids : watchNext(id, TRUE)

SpecPart == Init /\ [][NextPart]_vars

\* C6: when the callback always returns true, every event after the priming
\* one is delivered as follows: a deletion gives exactly one Delete; a put
\* gives exactly one Update if the value at the watched path differs from
\* what the key held just before (or the key did not exist), and no call
\* otherwise.
C6_OneUpdatePerChange ==
    [][\A id \in Ids :
         (handles[id].kind = "key" /\ watchNext(id, TRUE)) =>
            LET h == handles[id]
                r == NextRev(id)
                event == log[r][h.target]
                before == log[LastRevUpTo(h.target, r - 1)][h.target]
                at(text) == IF h.path = AllParts THEN text
                            ELSE gjsonGet(YAMLToJSON(text).json, h.path)
                calls == runners'[id].n - runners[id].n
            IN IF event.isNil
               THEN calls = 1 /\ runners'[id].arg.EventType = EventDelete
               ELSE IF before.isNil \/ at(before.Value) # at(event.Value)
                    THEN /\ calls = 1
                         /\ runners'[id].arg =
                              [EventType |-> EventUpdate, value |-> event.Value]
                    ELSE calls = 0]_vars

\* C13: the first event a single-key runner receives is delivered as an
\* Update with the event's value, whatever the path and the value, as the
\* first call of the callback; the value becomes oldValue; and a runner
\* never receives a first event twice.
C13_PrimingDelivered ==
    [][\A id \in Ids :
         handles[id].kind = "key" =>
            /\ runners[id].pc = "recv1" => runners[id].n = 0
            /\ runners'[id].pc = "recv1" => runners[id].pc = "recv1"
            /\ ((\E r \in BOOLEAN : watchFirst(id, r)) /\ HasEvent(id)) =>
                 LET event == EventAt(handles[id], NextRev(id))
                 IN /\ runners'[id].n = 1
                    /\ runners'[id].arg =
                         [EventType |-> EventUpdate, value |-> event.Value]
                    /\ runners'[id].oldValue = event.Value
                    /\ runners'[id].pos = NextRev(id) + 1]_vars

\* C13 witness: a runner watching one path has delivered its first event
\* and holds that event's value as oldValue.
C13_Witness ==
    \E id \in Ids :
        /\ handles[id].kind = "key"
        /\ handles[id].path = ServiceObservability
        /\ runners[id].n = 1
        /\ runners[id].arg.EventType = EventUpdate
        /\ runners[id].oldValue = runners[id].arg.value
        /\ runners[id].pos = handles[id].rev + 1

\* C19: when the last event a single-key runner received was a deletion,
\* the next value event is delivered as an Update, whatever its value.
C19_UpdateAfterDelete ==
    [][\A id \in Ids :
         (/\ handles[id].kind = "key"
          /\ watchNext(id, TRUE)
          /\ runners[id].lastNil
          /\ ~EventAt(handles[id], NextRev(id)).isNil) =>
            /\ runners'[id].n = runners[id].n + 1
            /\ runners'[id].arg =
                 [EventType |-> EventUpdate,
                  value |-> EventAt(handles[id], NextRev(id)).Value]]_vars

---------------------------------------------------------------------------
(* SpecMalformed: as SpecPart, but the clients of the store also put a     *)
(* text that is not YAML.  (Such a text reaches the decoding closure of    *)
(* the public method, which drops it; the callback of the model is the     *)
(* closure.)                                                               *)

MalformedDocs == {Doc("1", "1"), Doc("2", "1"), BadDoc}

NextMalformed ==
    \/ \E p \in PartPaths, out \in StoreOutcomes : OnPartOfServiceSpec(Svc, p, out)
    \/ Len(log) < MaxLogPart
         /\ \E txn \in Txns({ServiceSpecKey(Svc)}, MalformedDocs) : Commit(txn)
    \/ \E id \in Ids : watchFirst(id, TRUE)
    \/ \E id \in Ids : watchNext(id, TRUE)

SpecMalformed == Init /\ [][NextMalformed]_vars

\* C14: a value event is delivered if and only if comparePart finds it
\* different from the value of the last value event received before it,
\* delivered or not; and its value is the runner's oldValue afterwards.
C14_DiffAgainstLastReceived ==
    [][\A id \in Ids :
         (/\ handles[id].kind = "key"
          /\ watchNext(id, TRUE)
          /\ ~EventAt(handles[id], NextRev(id)).isNil) =>
            LET h == handles[id]
                event == EventAt(h, NextRev(id))
                last == log[LastPutUpTo(h.target, NextRev(id) - 1)][h.target].Value
                calls == runners'[id].n - runners[id].n
            IN /\ calls = (IF comparePart(h.path, last, event.Value) THEN 0 ELSE 1)
               /\ runners'[id].oldValue = event.Value]_vars

\* C14 witness: a runner watching one path delivered its first value, had
\* the text that is not YAML suppressed, and then had a value suppressed
\* whose value at the path differs from the delivered one.
C14_Witness ==
    \E id \in Ids :
        LET k == handles[id].target IN
        /\ handles[id].kind = "key"
        /\ handles[id].path = ServiceObservability
        /\ handles[id].rev = 1
        /\ Len(log) = 3
        /\ runners[id].pos = 4
        /\ runners[id].n = 1
        /\ log[2][k] = PutEvent(BadDoc)
        /\ ~log[3][k].isNil
        /\ log[3][k].Value.wf
        /\ log[3][k].Value.observability # runners[id].arg.value.observability
        /\ runners[id].oldValue = log[3][k].Value

\* C20: when a runner watching one path last received a text that is not
\* YAML and now receives a text that is, whose value at the path differs
\* from the value at the path of the last Update delivered, it delivers an
\* Update for it.
C20_MalformedSuppressionTransient ==
    [][\A id \in Ids :
         (/\ handles[id].kind = "key"
          /\ handles[id].path # AllParts
          /\ watchNext(id, TRUE)
          /\ ~runners[id].lastNil
          /\ YAMLToJSON(runners[id].oldValue).err
          /\ runners[id].arg.EventType = EventUpdate
          /\ ~YAMLToJSON(runners[id].arg.value).err
          /\ ~EventAt(handles[id], NextRev(id)).isNil
          /\ ~YAMLToJSON(EventAt(handles[id], NextRev(id)).Value).err
          /\ gjsonGet(YAMLToJSON(EventAt(handles[id], NextRev(id)).Value).json,
                      handles[id].path)
               # gjsonGet(YAMLToJSON(runners[id].arg.value).json, handles[id].path)) =>
            /\ runners'[id].n = runners[id].n + 1
            /\ runners'[id].arg =
                 [EventType |-> EventUpdate,
                  value |-> EventAt(handles[id], NextRev(id)).Value]]_vars

---------------------------------------------------------------------------
(* SpecPrefix: one prefix watch of the instance specs of one service with  *)
(* a callback that always returns true, while transactions put and delete  *)
(* two instances, one or both at a time.                                   *)

InstKeys == {ServiceInstanceSpecKey(Svc, "a"), ServiceInstanceSpecKey(Svc, "b")}
InstDocs == {Doc("1", "1"), Doc("2", "1")}

NextPrefix ==
    \/ \E out \in StoreOutcomes : OnServiceInstanceSpecs(Svc, out)
    \/ Len(log) < MaxLogPart /\ \E txn \in Txns(InstKeys, InstDocs) : Commit(txn)
    \/ \E id \in Ids : watchPrefixFirst(id, TRUE)
    \/ \E id \in Ids : watchPrefixNext(id, TRUE)

SpecPrefix == Init /\ [][NextPrefix]_vars

\* C7: when the callback always returns true, the first call of a prefix
\* watch's callback gets every key/value pair that was under the prefix at
\* registration, and every later call gets the contents of the prefix as
\* they are after the transaction that triggered it.
C7_PrefixSnapshots ==
    [][\A id \in Ids :
         LET h == handles[id]
             called == runners'[id].n = runners[id].n + 1
         IN /\ (h.kind = "prefix" /\ watchPrefixFirst(id, TRUE) /\ called)
                  => runners'[id].arg.kvs = PrefixValuesAt(h.target, h.regRev)
            /\ (h.kind = "prefix" /\ watchPrefixNext(id, TRUE) /\ called)
                  => runners'[id].arg.kvs = PrefixValuesAt(h.target, NextRev(id))]_vars

\* C11: each batch after the priming one calls the callback at most once,
\* with the whole snapshot as it is after the batch, and calls it if and
\* only if the batch left the snapshot different from what it was.
C11_CallbackIffSnapshotChanged ==
    [][\A id \in Ids :
         (handles[id].kind = "prefix" /\ watchPrefixNext(id, TRUE)) =>
            LET calls == runners'[id].n - runners[id].n
            IN /\ calls \in {0, 1}
               /\ calls = 1 => runners'[id].arg.kvs = runners'[id].kvs
               /\ calls = 1 <=> runners'[id].kvs # runners[id].kvs]_vars

\* SpecPrefix with the scheduling the runtime and the store give: a runner
\* whose channel holds a batch (or has ended) receives it and goes on.
SpecPrefixFair ==
    /\ SpecPrefix
    /\ WF_vars(\E id \in Ids : watchPrefixFirst(id, TRUE))
    /\ WF_vars(\E id \in Ids : watchPrefixNext(id, TRUE))

\* Key k was put after a prefix watch was registered on the empty prefix.
PutAfterEmptyRegistration(k) ==
    \E id \in Ids :
        /\ handles[id].kind = "prefix"
        /\ HasPrefix(k, handles[id].target)
        /\ PrefixValuesAt(handles[id].target, handles[id].regRev) = EmptyMap
        /\ Exists(k)

\* Key k is in a snapshot the callback of a prefix watch was called with.
InSnapshot(k) ==
    \E id \in Ids :
        /\ handles[id].kind = "prefix"
        /\ runners[id].n > 0
        /\ k \in DOMAIN runners[id].arg.kvs

\* C12: a key put under a prefix after a watch was registered on it while
\* it was empty is eventually in a snapshot the callback is called with
\* (or is deleted again before that).
C12_EmptyPrefixDelivers ==
    \A k \in InstKeys :
        [](PutAfterEmptyRegistration(k) => <>(InSnapshot(k) \/ ~Exists(k)))

---------------------------------------------------------------------------
(* SpecKeys: the five OnPartOf... methods, each on one resource and with   *)
(* two paths, while the store puts and deletes the five keys they read.    *)

Inst == "i"
Tenant == "t"
Ingress == "g"

KindKeys ==
    {ServiceSpecKey(Svc), ServiceInstanceSpecKey(Svc, Inst),
     ServiceInstanceStatusKey(Svc, Inst), TenantSpecKey(Tenant),
     IngressSpecKey(Ingress)}

NextKeys ==
    \/ \E p \in PartPaths, out \in StoreOutcomes : OnPartOfServiceSpec(Svc, p, out)
    \/ \E p \in PartPaths, out \in StoreOutcomes : OnPartOfInstanceSpec(Svc, Inst, p, out)
    \/ \E p \in PartPaths, out \in StoreOutcomes :
         OnPartOfServiceInstanceStatus(Svc, Inst, p, out)
    \/ \E p \in PartPaths, out \in StoreOutcomes : OnPartOfTenantSpec(Tenant, p, out)
    \/ \E p \in PartPaths, out \in StoreOutcomes : OnPartOfIngressSpec(Ingress, p, out)
    \/ Len(log) < MaxLog /\ \E k \in KindKeys : \E txn \in Txns({k}, SvcDocs) : Commit(txn)
    \/ \E id \in Ids : watchFirst(id, TRUE)

SpecKeys == Init /\ [][NextKeys]_vars

\* No watcher is registered that method op made for resource ids and path p.
Fresh(op, ids, p) ==
    /\ ~closed
    /\ \A id \in Registered :
         ~(handles[id].op = op /\ handles[id].ids = ids /\ handles[id].path = p)

\* C10: for each of the five kinds, a registration for a resource and a path
\* for which no watcher is registered is not refused with ErrAlreadyWatched,
\* whatever other paths of the same resource are watched.
C10_PathInWatchKey ==
    [][\A p \in PartPaths :
         /\ (Fresh("OnPartOfServiceSpec", <<Svc>>, p)
               /\ OnPartOfServiceSpec(Svc, p, "ok")) => ret' # ErrAlreadyWatched
         /\ (Fresh("OnPartOfInstanceSpec", <<Svc, Inst>>, p)
               /\ OnPartOfInstanceSpec(Svc, Inst, p, "ok")) => ret' # ErrAlreadyWatched
         /\ (Fresh("OnPartOfServiceInstanceStatus", <<Svc, Inst>>, p)
               /\ OnPartOfServiceInstanceStatus(Svc, Inst, p, "ok"))
                  => ret' # ErrAlreadyWatched
         /\ (Fresh("OnPartOfTenantSpec", <<Tenant>>, p)
               /\ OnPartOfTenantSpec(Tenant, p, "ok")) => ret' # ErrAlreadyWatched
         /\ (Fresh("OnPartOfIngressSpec", <<Ingress>>, p)
               /\ OnPartOfIngressSpec(Ingress, p, "ok")) => ret' # ErrAlreadyWatched]_vars

====
